---- MODULE Spec2Model ----
(***************************************************************************)
(* Daily sales forecasting pipeline of ModeloSarima.                       *)
(*                                                                         *)
(*   Backend/main.py                 GET /predict: read the sales file,    *)
(*                                   build the daily series, auto_arima,   *)
(*                                   forecast, JSON response               *)
(*   Backend/models/sarima_model.py  entrenar_y_predecir                   *)
(*   Frontend/app.py                 Streamlit dashboard: the same series  *)
(*                                   builder, a cached fixed-order SARIMAX *)
(*                                   fit, forecast, RMSE / MAPE            *)
(*                                                                         *)
(* Dates are day numbers (one unit = one calendar day).  A cell of a       *)
(* numeric column is <<>> (NaN) or <<x>>.  Amounts are integer multiples   *)
(* of Unit, the least common multiple of 1..Window, so that every mean of  *)
(* at most Window cells is an integer and is computed exactly.             *)
(***************************************************************************)
EXTENDS Integers, Sequences, FiniteSets, TLC

VARIABLES
    file,      \* the sales workbook: [readable, cols, rows]
    pc,        \* "idle" before the operation runs, "done" after it
    horizon,   \* the horizon the operation ran with
    built,     \* what the Series Builder produced: [by, ok, df]
    out,       \* what the operation returned, rendered or raised
    cache,     \* st.cache_resource entries of entrenar_sarima: key :> model
    fits,      \* history: key :> number of times a model fit was run for it
    env,       \* history: key :> the fit outcomes the library gave for it
    sel,       \* the last Model Selector invocation
    calls      \* number of Model Selector invocations so far

vars == <<file, pc, horizon, built, out, cache, fits, env, sel, calls>>

----------------------------------------------------------------------------
(* Bounds of the model *)

\* Series Builder inputs: at most MaxRows transaction rows, dated 0..MaxDay.
MaxRows == 3
MaxDay == 7
\* Pipeline inputs: at most MaxFileRows rows, dated 0..MaxFileDay.
MaxFileRows == 2
MaxFileDay == 2
\* GET /predict and entrenar_y_predecir horizons: -MaxHorizon..MaxHorizon.
MaxHorizon == 2
\* Model Selector invocations in one process.
MaxCalls == 3

(* Program constants *)

\* rolling(7, min_periods=1)
Window == 7
MinPeriods == 1
\* st.slider(..., min_value=7, max_value=14, value=14)
SliderMin == 7
SliderMax == 14
\* auto_arima(..., m=7) in /predict
PredictM == 7
\* entrenar_sarima(series, seasonal_period=7), called with seasonal_period=14
DefaultSeasonalPeriod == 7
CallSeasonalPeriod == 14
\* entrenar_y_predecir(df, periods=14, m=14)
DefaultM == 14
\* predict(horizon: int = Query(14, ...))
DefaultHorizon == 14

\* lcm(1..Window): every amount is a multiple of it.
Unit == 2 * 2 * 3 * 5 * 7

Amounts == {0 - Unit, 0, Unit}

----------------------------------------------------------------------------
(* Cells and sequences *)

NaN == <<>>
Num(x) == <<x>>
IsNa(c) == c = NaN

Max2(a, b) == IF a >= b THEN a ELSE b

\* The sequence f, held as a tuple of its elements.
Tuple(f) == f \o <<>>

RECURSIVE SetToSortedSeq(_)
SetToSortedSeq(S) ==
    IF S = {} THEN <<>>
    ELSE LET m == CHOOSE x \in S : \A z \in S : x <= z
         IN <<m>> \o SetToSortedSeq(S \ {m})

RECURSIVE SumOver(_, _)
\* Sum of f[i] for i in the finite set I.
SumOver(f, I) ==
    IF I = {} THEN 0
    ELSE LET i == CHOOSE x \in I : TRUE
         IN f[i] + SumOver(f, I \ {i})

----------------------------------------------------------------------------
(* Series Builder: pandas operations *)

ColFecha == "Fecha Emision"
ColImporte == "Importe Final"
ColDoc == "Doc. Auxiliar"
ColRazon == "Razon Social"
AllCols == {ColFecha, ColImporte, ColDoc, ColRazon}

\* df.groupby("Fecha Emision", as_index=False)["Importe Final"].sum():
\* one row per distinct date, in ascending date order, with the summed amount.
GroupBySum(rows) ==
    LET fechas == SetToSortedSeq({rows[i].fecha : i \in DOMAIN rows})
        amount == [i \in DOMAIN rows |-> rows[i].importe]
    IN Tuple([k \in DOMAIN fechas |->
           [ds |-> fechas[k],
            y  |-> Num(SumOver(amount,
                        {i \in DOMAIN rows : rows[i].fecha = fechas[k]}))]])

\* pd.date_range(ds.min(), ds.max(), freq="D") of a non-empty grouped frame.
FullRange(g) ==
    LET lo == g[1].ds
        hi == g[Len(g)].ds
    IN Tuple([i \in 1..(hi - lo + 1) |-> lo + i - 1])

\* df.set_index("ds").reindex(full_range): a date without a row gets NaN.
Reindex(g, range) ==
    Tuple([i \in DOMAIN range |->
        [ds |-> range[i],
         y  |-> IF \E k \in DOMAIN g : g[k].ds = range[i]
                THEN g[CHOOSE k \in DOMAIN g : g[k].ds = range[i]].y
                ELSE NaN]])

\* .fillna(0) of the dashboard's reindex line
FillNaZero(y) ==
    Tuple([i \in DOMAIN y |-> IF IsNa(y[i]) THEN Num(0) ELSE y[i]])

\* Faulty variant of ReplaceZero: zeros are kept.
ReplaceZeroSkipped(y) == y

\* y.replace(0, np.nan)
ReplaceZero(y) ==
    Tuple([i \in DOMAIN y |-> IF y[i] = Num(0) THEN NaN ELSE y[i]])

\* Faulty variant of RollingMean: the window is the w rows before row i.
RollingMeanPreceding(y, w, mp) ==
    Tuple([i \in DOMAIN y |->
        LET obs == {j \in Max2(1, i - w)..(i - 1) : ~IsNa(y[j])}
            val == [j \in DOMAIN y |-> IF IsNa(y[j]) THEN 0 ELSE y[j][1]]
        IN IF Cardinality(obs) >= mp /\ obs # {}
           THEN Num(SumOver(val, obs) \div Cardinality(obs))
           ELSE NaN])

\* y.rolling(w, min_periods=mp).mean(): at row i, the mean of the non-NaN
\* cells among rows i-w+1..i (the row itself included), NaN when fewer than
\* mp of them are non-NaN.
RollingMean(y, w, mp) ==
    Tuple([i \in DOMAIN y |->
        LET obs == {j \in Max2(1, i - w + 1)..i : ~IsNa(y[j])}
            val == [j \in DOMAIN y |-> IF IsNa(y[j]) THEN 0 ELSE y[j][1]]
        IN IF Cardinality(obs) >= mp /\ obs # {}
           THEN Num(SumOver(val, obs) \div Cardinality(obs))
           ELSE NaN])

\* y.fillna(other): NaN cells take the cell of other at the same row.
FillNa(y, other) ==
    Tuple([i \in DOMAIN y |-> IF IsNa(y[i]) THEN other[i] ELSE y[i]])

\* y.fillna(method="bfill"): the next non-NaN cell, NaN when there is none.
Bfill(y) ==
    Tuple([i \in DOMAIN y |->
        IF \E j \in i..Len(y) : ~IsNa(y[j])
        THEN y[CHOOSE j \in i..Len(y) :
                   ~IsNa(y[j]) /\ \A k \in i..(j - 1) : IsNa(y[k])]
        ELSE NaN])

\* y.fillna(method="ffill"): the last non-NaN cell, NaN when there is none.
Ffill(y) ==
    Tuple([i \in DOMAIN y |->
        IF \E j \in 1..i : ~IsNa(y[j])
        THEN y[CHOOSE j \in 1..i :
                   ~IsNa(y[j]) /\ \A k \in (j + 1)..i : IsNa(y[k])]
        ELSE NaN])

Col(df) == Tuple([i \in DOMAIN df |-> df[i].y])
WithCol(df, y) == Tuple([i \in DOMAIN df |-> [ds |-> df[i].ds, y |-> y[i]]])

\* The imputation lines: replace(0, NaN); fillna(rolling mean); bfill; ffill.
Impute(y) ==
    LET y1 == ReplaceZero(y)
        y2 == FillNa(y1, RollingMean(y1, Window, MinPeriods))
    IN Ffill(Bfill(y2))

Raised(stage, exc) == [ok |-> FALSE, stage |-> stage, exc |-> exc, df |-> <<>>]
Built(df) == [ok |-> TRUE, stage |-> "", exc |-> "", df |-> df]

\* Faulty variant of SeriesBuilderBackend: an empty input gets a one-day range
\* instead of the exception.
SeriesBuilderBackendDefaultDay(rows) ==
    LET g == GroupBySum(rows)
    IN IF g = <<>> THEN Built(<<[ds |-> 0, y |-> NaN]>>)
       ELSE LET df == Reindex(g, FullRange(g))
            IN Built(WithCol(df, Impute(Col(df))))

\* main.py: the Series Builder of /predict.  pd.date_range raises ValueError
\* when min() and max() of an empty column are NaT.
SeriesBuilderBackend(rows) ==
    LET g == GroupBySum(rows)
    IN IF g = <<>> THEN Raised("series", "ValueError")
       ELSE LET df == Reindex(g, FullRange(g))
            IN Built(WithCol(df, Impute(Col(df))))

\* app.py: the Series Builder of the dashboard (reindex(...).fillna(0) first).
SeriesBuilderFrontend(rows) ==
    LET g == GroupBySum(rows)
    IN IF g = <<>> THEN Raised("series", "ValueError")
       ELSE LET df == Reindex(g, FullRange(g))
            IN Built(WithCol(df, Impute(FillNaZero(Col(df)))))

----------------------------------------------------------------------------
(* Inputs *)

Row(d, a) == [fecha |-> d, importe |-> a]

RowLeq(r, s) ==
    \/ r.fecha < s.fecha
    \/ r.fecha = s.fecha /\ r.importe <= s.importe

\* The files of at most n rows dated 0..maxday, rows listed in (date, amount)
\* order: the group-by sum does not depend on the order of the rows.
RowSeqs(n, maxday) ==
    UNION {{s \in [1..k -> {Row(d, a) : d \in 0..maxday, a \in Amounts}] :
                \A i \in 1..(k - 1) : RowLeq(s[i], s[i + 1])} : k \in 0..n}

NoBuilt == [by |-> "none", ok |-> FALSE, stage |-> "", exc |-> "", df |-> <<>>]
NoOut == [handler |-> "none", kind |-> "none", stage |-> "", exc |-> "",
          msg |-> "", historico |-> <<>>, forecast |-> <<>>, fitted |-> 0,
          denoms |-> <<>>]
NoModel == [order |-> <<>>, seasonal_order |-> <<>>, endog |-> <<>>]
NoSel == [selector |-> "none", series |-> <<>>, period |-> 0, hit |-> FALSE,
          ok |-> FALSE, model |-> NoModel]

----------------------------------------------------------------------------
(* Specification of the Series Builder alone *)

InitBuilder ==
    /\ file \in {[readable |-> TRUE, cols |-> AllCols, rows |-> r] :
                    r \in RowSeqs(MaxRows, MaxDay)}
    /\ pc = "idle"
    /\ horizon = 0
    /\ built = NoBuilt
    /\ out = NoOut
    /\ cache = <<>>
    /\ fits = <<>>
    /\ env = <<>>
    /\ sel = NoSel
    /\ calls = 0

\* main.py lines 19-30
BuildBackend ==
    /\ pc = "idle"
    /\ built' = [by |-> "main"] @@ SeriesBuilderBackend(file.rows)
    /\ pc' = "done"
    /\ UNCHANGED <<file, horizon, out, cache, fits, env, sel, calls>>

\* app.py lines 28-36
BuildFrontend ==
    /\ pc = "idle"
    /\ built' = [by |-> "app"] @@ SeriesBuilderFrontend(file.rows)
    /\ pc' = "done"
    /\ UNCHANGED <<file, horizon, out, cache, fits, env, sel, calls>>

NextBuilder == BuildBackend \/ BuildFrontend

SpecBuilder == InitBuilder /\ [][NextBuilder]_vars

----------------------------------------------------------------------------
(* Evaluator (app.py, tab 3) *)

\* df.tail(n): the last n rows, all of them when there are fewer.
DfTail(df, n) ==
    IF n <= 0 THEN <<>>
    ELSE SubSeq(df, Max2(1, Len(df) - n + 1), Len(df))

\* The divisors of error / df_eval_recent["Importe Final"] in the MAPE line.
\* pandas divides elementwise; a zero divisor gives inf or NaN, not an error.
MapeDenominators(df, h) == Col(DfTail(df, h))

----------------------------------------------------------------------------
(* Model Selector and Forecaster *)

\* Faulty variant of CacheKey: the seasonal period is left out of the key.
CacheKeySeriesOnly(series, seasonal_period) ==
    <<"entrenar_sarima", series, 0>>

\* st.cache_resource keys an entry by the decorated function and the hash of
\* its arguments: the series and the seasonal period.
CacheKey(series, seasonal_period) ==
    <<"entrenar_sarima", series, seasonal_period>>

\* entrenar_sarima: one SARIMAX of order (1,1,1)x(1,1,1,seasonal_period) is
\* fitted to the series; fitok says whether model.fit returned or raised.
entrenar_sarima(series, seasonal_period, fitok) ==
    [ok |-> fitok,
     model |-> [order |-> <<1, 1, 1>>,
                seasonal_order |-> <<1, 1, 1, seasonal_period>>,
                endog |-> series]]

\* @st.cache_resource around entrenar_sarima: a call whose key is cached
\* returns the cached model and runs nothing; otherwise the body runs, and its
\* return value is cached (an exception is not).
CachedEntrenarSarima(c, series, seasonal_period, fitok) ==
    LET key == CacheKey(series, seasonal_period)
    IN IF key \in DOMAIN c
       THEN [hit |-> TRUE, ok |-> TRUE, model |-> c[key], cache |-> c]
       ELSE LET r == entrenar_sarima(series, seasonal_period, fitok)
            IN [hit |-> FALSE, ok |-> r.ok, model |-> r.model,
                cache |-> IF r.ok THEN (key :> r.model) @@ c ELSE c]

\* auto_arima(y, seasonal=True, m=m): the library's own order search; the
\* orders it settles on are not decided by this repository.
auto_arima(series, m, fitok) ==
    [ok |-> fitok,
     model |-> [order |-> <<>>, seasonal_order |-> <<m>>, endog |-> series]]

\* Faulty variant of ModelPredict: a non-positive n gives no prediction and no error.
ModelPredictUnchecked(model, n) ==
    [ok |-> TRUE,
     yhat |-> Tuple([i \in 1..n |-> [step |-> Len(model.endog) + i]])]

\* model.predict(n_periods=n) / results.forecast(steps=n): n predictions for
\* the n steps after the sample.  The prediction runs from nobs to
\* nobs + n - 1, and statsmodels raises ValueError ("Prediction must have
\* `end` after `start`") when n <= 0.
ModelPredict(model, n) ==
    IF n <= 0
    THEN [ok |-> FALSE, yhat |-> <<>>]
    ELSE [ok |-> TRUE,
          yhat |-> Tuple([i \in 1..n |-> [step |-> Len(model.endog) + i]])]

\* pd.date_range(start, periods=n): n consecutive days from start.
DateRangePeriods(start, n) == Tuple([i \in 1..n |-> start + i - 1])

\* Faulty variant of ForecastDates: the range starts on the last date itself.
ForecastDatesFromLast(df, periods) ==
    DateRangePeriods(df[Len(df)].ds, periods)

\* pd.date_range(df["ds"].max() + pd.Timedelta(days=1), periods=periods)
ForecastDates(df, periods) == DateRangePeriods(df[Len(df)].ds + 1, periods)

\* .astype(str) of a date: its ISO text.
DateStr(d) == [iso |-> d]

\* main.py: forecast_df, dates as text, with the confidence bounds.
ForecastFrameBackend(df, yhat, periods) ==
    LET fechas == ForecastDates(df, periods)
    IN Tuple([i \in DOMAIN fechas |->
                [Fecha |-> DateStr(fechas[i]), Prediccion |-> yhat[i],
                 LI |-> [lower |-> yhat[i].step],
                 LS |-> [upper |-> yhat[i].step]]])

\* sarima_model.py and app.py: DataFrame({"Fecha": ..., "Prediccion": ...})
ForecastFrame(df, yhat, periods) ==
    LET fechas == ForecastDates(df, periods)
    IN Tuple([i \in DOMAIN fechas |->
                [Fecha |-> fechas[i], Prediccion |-> yhat[i]]])

\* main.py: historico_df, dates as text, columns renamed.
Historico(df) ==
    Tuple([i \in DOMAIN df |-> [Fecha |-> DateStr(df[i].ds), Ventas |-> df[i].y]])

\* app.py plots df_sum as it is.
HistoricoFrontend(df) ==
    Tuple([i \in DOMAIN df |-> [Fecha |-> df[i].ds, Ventas |-> df[i].y]])

----------------------------------------------------------------------------
(* Operations *)

Horizons == (0 - MaxHorizon)..MaxHorizon

Result(handler, kind, stage, exc, msg, fitted) ==
    [handler |-> handler, kind |-> kind, stage |-> stage, exc |-> exc,
     msg |-> msg, historico |-> <<>>, forecast |-> <<>>, fitted |-> fitted,
     denoms |-> <<>>]

SchemaMessage == "El archivo debe tener 'Fecha Emision' y 'Importe Final'"

\* main.py predict, line 55: except Exception as e: return {"error": str(e)}
ErrorPayload(stage, exc, fitted) ==
    Result("predict", "error", stage, exc, "str(e)", fitted)

\* main.py predict(horizon): the whole handler.  fitok is whether auto_arima
\* returned a model on this series.
PredictHandler(f, h, fitok) ==
    IF ~f.readable
    THEN [built |-> NoBuilt,
          out |-> ErrorPayload("read", "FileNotFoundError", 0)]
    ELSE IF ColFecha \notin f.cols \/ ColImporte \notin f.cols
    THEN [built |-> NoBuilt,
          out |-> Result("predict", "error", "schema", "", SchemaMessage, 0)]
    ELSE
    LET b == [by |-> "main"] @@ SeriesBuilderBackend(f.rows)
        fit == auto_arima(Col(b.df), PredictM, fitok)
        fc == ModelPredict(fit.model, h)
    IN IF ~b.ok
       THEN [built |-> b, out |-> ErrorPayload(b.stage, b.exc, 0)]
       ELSE IF ~fit.ok
       THEN [built |-> b, out |-> ErrorPayload("fit", "LibraryError", 1)]
       ELSE IF ~fc.ok
       THEN [built |-> b, out |-> ErrorPayload("forecast", "ValueError", 1)]
       ELSE IF \E i \in DOMAIN b.df : IsNa(b.df[i].y)
       \* JSONResponse renders with allow_nan=False inside the try block
       THEN [built |-> b, out |-> ErrorPayload("render", "ValueError", 1)]
       ELSE [built |-> b,
             out |-> [Result("predict", "ok", "", "", "", 1) EXCEPT
                        !.historico = Historico(b.df),
                        !.forecast = ForecastFrameBackend(b.df, fc.yhat, h)]]

\* app.py has no exception handler: an exception leaves the script.
Uncaught(stage, exc, fitted) ==
    Result("app", "raised", stage, exc, "", fitted)

\* app.py, the whole script run with the slider at h.  fitok is whether
\* model.fit returns on this series.  Tabs 4 and 5 (customer analytics and
\* seasonal charts) read df_hist and df_sum and change none of this state.
DashboardRun(f, h, fitok, c) ==
    IF ~f.readable
    THEN [built |-> NoBuilt, cache |-> c,
          out |-> Uncaught("read", "FileNotFoundError", 0)]
    ELSE IF ~(AllCols \subseteq f.cols)
    THEN [built |-> NoBuilt, cache |-> c,
          out |-> Uncaught("schema", "KeyError", 0)]
    ELSE
    LET b == [by |-> "app"] @@ SeriesBuilderFrontend(f.rows)
        fit == CachedEntrenarSarima(c, Col(b.df), CallSeasonalPeriod, fitok)
        ran == IF fit.hit THEN 0 ELSE 1
        fc == ModelPredict(fit.model, h)
    IN IF ~b.ok
       THEN [built |-> b, cache |-> c, out |-> Uncaught(b.stage, b.exc, 0)]
       ELSE IF ~fit.ok
       THEN [built |-> b, cache |-> fit.cache,
             out |-> Uncaught("fit", "LibraryError", ran)]
       ELSE IF ~fc.ok
       THEN [built |-> b, cache |-> fit.cache,
             out |-> Uncaught("forecast", "ValueError", ran)]
       ELSE IF \E i \in DOMAIN DfTail(b.df, h) : IsNa(DfTail(b.df, h)[i].y)
       \* tab 3, line 105: mean_squared_error rejects a column holding NaN,
       \* after tabs 1 and 2 have drawn the series and the forecast
       THEN [built |-> b, cache |-> fit.cache,
             out |-> [Uncaught("evaluate", "ValueError", ran) EXCEPT
                        !.historico = HistoricoFrontend(b.df),
                        !.forecast = ForecastFrame(b.df, fc.yhat, h)]]
       ELSE [built |-> b, cache |-> fit.cache,
             out |-> [Result("app", "ok", "", "", "", ran) EXCEPT
                        !.historico = HistoricoFrontend(b.df),
                        !.forecast = ForecastFrame(b.df, fc.yhat, h),
                        !.denoms = MapeDenominators(b.df, h)]]

\* sarima_model.py entrenar_y_predecir(df, periods, m): no handler of its own.
EntrenarYPredecir(df, periods, m, fitok) ==
    LET fit == auto_arima(Col(df), m, fitok)
        fc == ModelPredict(fit.model, periods)
    IN IF ~fit.ok
       THEN Result("entrenar_y_predecir", "raised", "fit", "LibraryError", "", 1)
       ELSE IF ~fc.ok
       THEN Result("entrenar_y_predecir", "raised", "forecast", "ValueError", "", 1)
       ELSE [Result("entrenar_y_predecir", "ok", "", "", "", 1) EXCEPT
                !.forecast = ForecastFrame(df, fc.yhat, periods)]

----------------------------------------------------------------------------
(* Specification of one run of each operation *)

PipelineFiles ==
    {[readable |-> FALSE, cols |-> AllCols, rows |-> <<>>]}
    \cup {[readable |-> TRUE, cols |-> c, rows |-> r] :
            c \in {AllCols, {ColFecha, ColImporte}, AllCols \ {ColImporte},
                   AllCols \ {ColFecha}},
            r \in RowSeqs(MaxFileRows, MaxFileDay)}

Init ==
    /\ file \in PipelineFiles
    /\ pc = "idle"
    /\ horizon = 0
    /\ built = NoBuilt
    /\ out = NoOut
    /\ cache = <<>>
    /\ fits = <<>>
    /\ env = <<>>
    /\ sel = NoSel
    /\ calls = 0

\* GET /predict?horizon=h (horizon defaults to 14)
Predict ==
    /\ pc = "idle"
    /\ \E h \in Horizons \cup {DefaultHorizon}, fitok \in BOOLEAN :
          LET r == PredictHandler(file, h, fitok)
          IN /\ horizon' = h
             /\ built' = r.built
             /\ out' = r.out
    /\ pc' = "done"
    /\ UNCHANGED <<file, cache, fits, env, sel, calls>>

\* One run of the Streamlit script, the slider at h.
Dashboard ==
    /\ pc = "idle"
    /\ \E h \in SliderMin..SliderMax, fitok \in BOOLEAN :
          LET r == DashboardRun(file, h, fitok, cache)
          IN /\ horizon' = h
             /\ built' = r.built
             /\ out' = r.out
             /\ cache' = r.cache
    /\ pc' = "done"
    /\ UNCHANGED <<file, fits, env, sel, calls>>

\* entrenar_y_predecir on a built daily series.
CallEntrenarYPredecir ==
    /\ pc = "idle"
    /\ file.readable /\ AllCols \subseteq file.cols
    /\ SeriesBuilderBackend(file.rows).ok
    /\ \E h \in Horizons \cup {DefaultHorizon}, fitok \in BOOLEAN :
          /\ horizon' = h
          /\ built' = [by |-> "main"] @@ SeriesBuilderBackend(file.rows)
          /\ out' = EntrenarYPredecir(SeriesBuilderBackend(file.rows).df,
                                      h, DefaultM, fitok)
    /\ pc' = "done"
    /\ UNCHANGED <<file, cache, fits, env, sel, calls>>

Next == Predict \/ Dashboard \/ CallEntrenarYPredecir

Spec == Init /\ [][Next]_vars

----------------------------------------------------------------------------
(* Specification of the Model Selector invocations of one process *)

\* The series the selectors are invoked on.
SelSeries == {<<Num(Unit), Num(Unit)>>, <<Num(Unit), Num(2 * Unit)>>}
SeasonalPeriods == {DefaultSeasonalPeriod, CallSeasonalPeriod}

\* The orders (p, d, q, P, D, Q) of the grid, each component 0 or 1.
Candidates == [1..6 -> {0, 1}]
\* Position of an order in the p-major, Q-minor iteration.
Rank(c) == 32 * c[1] + 16 * c[2] + 8 * c[3] + 4 * c[4] + 2 * c[5] + c[6]

\* What fitting an order to a series gives: Fail, or the in-sample RMSE.
Fail == <<>>
FitOutcomes == {Fail, <<1>>, <<2>>}
\* The outcome tables the library may give for one series and period: outcome
\* a for the order (1,1,1)x(1,1,1), outcome b for every other order.
GridEnvs ==
    {[c \in Candidates |-> IF c = <<1, 1, 1, 1, 1, 1>> THEN a ELSE b] :
        a \in FitOutcomes, b \in FitOutcomes}

Runs(f, k) == IF k \in DOMAIN f THEN f[k].runs ELSE 0
Models(f, k) == IF k \in DOMAIN f THEN f[k].models ELSE 0
\* One more fit run for key k, which produced a model when ok.
Bump(f, k, ok) ==
    (k :> [runs |-> Runs(f, k) + 1,
           models |-> Models(f, k) + (IF ok THEN 1 ELSE 0)]) @@ f

InitSelector ==
    /\ file = [readable |-> TRUE, cols |-> AllCols, rows |-> <<>>]
    /\ pc = "idle"
    /\ horizon = 0
    /\ built = NoBuilt
    /\ out = NoOut
    /\ cache = <<>>
    /\ fits = <<>>
    /\ env = <<>>
    /\ sel = NoSel
    /\ calls = 0

\* app.py: modelo = entrenar_sarima(series, seasonal_period=...).  The fit is
\* a function of the series and the period: a pair seen before gets the
\* outcomes it got then.
InvokeEntrenarSarima ==
    /\ calls < MaxCalls
    /\ \E series \in SelSeries, period \in SeasonalPeriods, g \in GridEnvs :
          LET k == <<"entrenar_sarima", series, period>>
              r == CachedEntrenarSarima(cache, series, period,
                                        g[<<1, 1, 1, 1, 1, 1>>] # Fail)
          IN /\ k \in DOMAIN env => env[k].grid = g
             /\ env' = IF k \in DOMAIN env THEN env
                       ELSE (k :> [ok |-> g[<<1, 1, 1, 1, 1, 1>>] # Fail,
                                   grid |-> g]) @@ env
             /\ cache' = r.cache
             /\ fits' = IF r.hit THEN fits ELSE Bump(fits, k, r.ok)
             /\ sel' = [selector |-> "entrenar_sarima", series |-> series,
                        period |-> period, hit |-> r.hit, ok |-> r.ok,
                        model |-> IF r.ok THEN r.model ELSE NoModel]
    /\ calls' = calls + 1
    /\ UNCHANGED <<file, pc, horizon, built, out>>

\* main.py line 35: model = auto_arima(df["y"], seasonal=True, m=7), run by
\* every request.
InvokeAutoArima ==
    /\ calls < MaxCalls
    /\ \E series \in SelSeries, fitok \in BOOLEAN :
          LET k == <<"auto_arima", series, PredictM>>
              r == auto_arima(series, PredictM, fitok)
          IN /\ k \in DOMAIN env => env[k].ok = fitok
             /\ env' = IF k \in DOMAIN env THEN env
                       ELSE (k :> [ok |-> fitok, grid |-> <<>>]) @@ env
             /\ fits' = Bump(fits, k, r.ok)
             /\ sel' = [selector |-> "auto_arima", series |-> series,
                        period |-> PredictM, hit |-> FALSE, ok |-> r.ok,
                        model |-> IF r.ok THEN r.model ELSE NoModel]
    /\ calls' = calls + 1
    /\ UNCHANGED <<file, pc, horizon, built, out, cache>>

NextSelector == InvokeEntrenarSarima \/ InvokeAutoArima

SpecSelector == InitSelector /\ [][NextSelector]_vars

----------------------------------------------------------------------------
(* Claims about the Series Builder, checked under SpecBuilder *)

MinFecha(rows) == CHOOSE d \in {rows[i].fecha : i \in DOMAIN rows} :
                      \A i \in DOMAIN rows : d <= rows[i].fecha
MaxFecha(rows) == CHOOSE d \in {rows[i].fecha : i \in DOMAIN rows} :
                      \A i \in DOMAIN rows : d >= rows[i].fecha

\* The summed amount of day d (0 when the day has no row).
DaySum(rows, d) ==
    SumOver([i \in DOMAIN rows |-> rows[i].importe],
            {i \in DOMAIN rows : rows[i].fecha = d})

\* One row per calendar day of [min, max], consecutive dates.
GapFree(rows, df) ==
    /\ Len(df) = MaxFecha(rows) - MinFecha(rows) + 1
    /\ \A i \in DOMAIN df : df[i].ds = MinFecha(rows) + i - 1

NoMissing(df) == \A i \in DOMAIN df : ~IsNa(df[i].y)

AllDaysZero(rows) ==
    /\ rows # <<>>
    /\ \A d \in MinFecha(rows)..MaxFecha(rows) : DaySum(rows, d) = 0

\* C1: for every non-empty set of rows the Series Builder outputs one row per
\* calendar day of [min_date, max_date], dates increasing by one day, and no
\* missing value in any row.
C1_GapFreeNoMissing ==
    (pc = "done" /\ file.rows # <<>>) =>
        /\ built.ok
        /\ GapFree(file.rows, built.df)
        /\ NoMissing(built.df)

\* Supporting fact for C1: the shape always holds, and no value is missing as
\* soon as one day of the range has a non-zero sum.
C1_HoldsUnlessAllZero ==
    (pc = "done" /\ file.rows # <<>>) =>
        /\ built.ok
        /\ GapFree(file.rows, built.df)
        /\ (~AllDaysZero(file.rows) => NoMissing(built.df))

\* C9: when every day of the range sums to zero or is missing, the Series
\* Builder completes and outputs zero on every day.
C9_AllZeroOutput ==
    (pc = "done" /\ AllDaysZero(file.rows)) =>
        /\ built.ok
        /\ \A i \in DOMAIN built.df : built.df[i].y = Num(0)

\* What the code does in the case of C9: every day is left missing.
C9_AllZeroStaysMissing ==
    (pc = "done" /\ AllDaysZero(file.rows)) =>
        /\ built.ok
        /\ GapFree(file.rows, built.df)
        /\ \A i \in DOMAIN built.df : IsNa(built.df[i].y)

\* The column before imputation: the daily sums over the full range, with a
\* missing or zero day as NaN.
Original(rows) ==
    [i \in 1..(MaxFecha(rows) - MinFecha(rows) + 1) |->
        IF DaySum(rows, MinFecha(rows) + i - 1) = 0 THEN NaN
        ELSE Num(DaySum(rows, MinFecha(rows) + i - 1))]

\* The rows among the n days before row i that hold an original value.
Preceding(orig, i, n) == {j \in Max2(1, i - n)..(i - 1) : ~IsNa(orig[j])}

MeanOf(orig, I) ==
    SumOver([j \in DOMAIN orig |-> IF IsNa(orig[j]) THEN 0 ELSE orig[j][1]], I)
        \div Cardinality(I)

\* Every missing or zero day with an original value among its n preceding
\* days becomes the mean of the original values of those n days.
ImputedFromPreceding(n) ==
    (pc = "done" /\ built.ok) =>
        LET orig == Original(file.rows)
        IN \A i \in DOMAIN built.df :
               (IsNa(orig[i]) /\ Preceding(orig, i, n) # {}) =>
                   built.df[i].y = Num(MeanOf(orig, Preceding(orig, i, n)))

\* C3 as stated: the average is over the preceding 7 calendar days.
C3_PrecedingSeven == ImputedFromPreceding(Window)

\* C3 amended: the 7-day window ends on the day itself, so the average is
\* over the preceding 6 calendar days.
C3_PrecedingSix == ImputedFromPreceding(Window - 1)

\* A day imputed from two different original values of its preceding 6 days,
\* with a third original value 7 days before it that does not enter the mean.
C3_Witness ==
    /\ pc = "done" /\ built.ok
    /\ LET orig == Original(file.rows)
       IN \E i \in DOMAIN built.df :
            /\ IsNa(orig[i])
            /\ i > Window /\ ~IsNa(orig[i - Window])
            /\ Preceding(orig, i, Window - 1) # {}
            /\ MeanOf(orig, Preceding(orig, i, Window - 1))
                   # MeanOf(orig, Preceding(orig, i, Window))
            /\ built.df[i].y = Num(MeanOf(orig, Preceding(orig, i, Window - 1)))

NonNegative(rows) == \A i \in DOMAIN rows : rows[i].importe >= 0
SomePositiveDay(rows) ==
    \E i \in DOMAIN rows : DaySum(rows, rows[i].fecha) > 0

\* C10: with non-negative amounts and at least one positive daily sum, every
\* value of the Series Builder output is strictly positive, and no divisor of
\* the Evaluator's MAPE over a trailing window is zero.
C10_StrictlyPositive ==
    (pc = "done" /\ NonNegative(file.rows) /\ SomePositiveDay(file.rows)) =>
        /\ built.ok
        /\ \A i \in DOMAIN built.df :
               ~IsNa(built.df[i].y) /\ built.df[i].y[1] > 0
        /\ \A h \in SliderMin..SliderMax :
               \A k \in DOMAIN MapeDenominators(built.df, h) :
                   MapeDenominators(built.df, h)[k] # Num(0)

\* A series built from non-negative amounts with a zero-amount day and a day
\* without rows, both imputed.
C10_Witness ==
    /\ pc = "done" /\ built.ok
    /\ NonNegative(file.rows) /\ SomePositiveDay(file.rows)
    /\ \E i \in DOMAIN file.rows : file.rows[i].importe = 0
    /\ \E i \in DOMAIN built.df :
           \A k \in DOMAIN file.rows : file.rows[k].fecha # built.df[i].ds
    /\ Len(built.df) > 2

----------------------------------------------------------------------------
(* Claims about the operations, checked under Spec *)

\* The day a forecast record is dated: /predict gives the date as text.
FechaDay(rec) == IF out.handler = "predict" THEN rec.Fecha.iso ELSE rec.Fecha

\* C2: for every horizon H >= 1 the Forecaster does not fail and returns
\* exactly H records, dated the H consecutive days after the last date of the
\* series, each with its point prediction.
C2_ForecastDays ==
    (pc = "done" /\ horizon >= 1) =>
        /\ out.stage # "forecast"
        /\ out.kind = "ok" =>
              /\ Len(out.forecast) = horizon
              /\ \A i \in 1..horizon :
                    /\ FechaDay(out.forecast[i]) = MaxFecha(file.rows) + i
                    /\ out.forecast[i].Prediccion
                           = [step |-> Len(built.df) + i]

\* /predict answered with a two-day forecast for a series of several days.
C2_Witness ==
    /\ pc = "done" /\ out.handler = "predict" /\ out.kind = "ok"
    /\ horizon = 2 /\ Len(out.forecast) = 2
    /\ Len(built.df) >= 2

\* The file is read and has the columns the operation needs.
Readable ==
    /\ file.readable
    /\ out.handler = "predict" => {ColFecha, ColImporte} \subseteq file.cols
    /\ out.handler = "app" => AllCols \subseteq file.cols

\* C4: with no transaction row the operation fails in the Series Builder (the
\* spec's EmptyInputError is the exception raised there: the ValueError of
\* pd.date_range for the NaT bounds of an empty column) and goes no further:
\* no model is fitted, and neither historico nor forecast is produced.
C4_EmptyInputFails ==
    (pc = "done" /\ Readable /\ file.rows = <<>>) =>
        /\ out.kind \in {"error", "raised"}
        /\ out.stage = "series"
        /\ ~built.ok
        /\ out.fitted = 0 /\ cache = <<>>
        /\ out.historico = <<>> /\ out.forecast = <<>>

\* /predict on a readable file with no rows.
C4_Witness ==
    /\ pc = "done" /\ out.handler = "predict"
    /\ file.readable /\ AllCols \subseteq file.cols /\ file.rows = <<>>
    /\ out.kind = "error" /\ out.stage = "series"

\* C5: with a horizon <= 0 no operation succeeds and none gives a forecast
\* record; once the series is built and the model fitted, it is the Forecaster
\* that fails (the spec's InvalidHorizonError is the exception raised there:
\* the ValueError of model.predict).
C5_NonPositiveHorizonFails ==
    (pc = "done" /\ horizon <= 0) =>
        /\ out.kind # "ok"
        /\ out.forecast = <<>>
        /\ (built.ok /\ out.fitted = 1 /\ out.stage # "fit") =>
              out.stage = "forecast" /\ out.kind \in {"error", "raised"}

\* /predict?horizon=0 on a series that auto_arima fitted.
C5_Witness ==
    /\ pc = "done" /\ out.handler = "predict" /\ horizon = 0
    /\ built.ok /\ out.fitted = 1
    /\ out.kind = "error" /\ out.stage = "forecast"

\* What a boundary gives: an error payload with a message and nothing else,
\* or historico and forecast together.
PayloadWellFormed ==
    /\ out.kind \in {"ok", "error"}
    /\ out.kind = "error" =>
          out.msg # "" /\ out.historico = <<>> /\ out.forecast = <<>>
    /\ out.kind = "ok" => out.historico # <<>> /\ out.forecast # <<>>

\* C6: at both boundaries, /predict and the dashboard, a failure of any stage
\* is caught and turned into an error payload; the response is an error
\* payload or historico with forecast.
C6_BoundaryCatches ==
    (pc = "done" /\ out.handler \in {"predict", "app"}) => PayloadWellFormed

\* Supporting fact for C6: it holds at the /predict boundary.
C6_PredictCatches ==
    (pc = "done" /\ out.handler = "predict") => PayloadWellFormed

----------------------------------------------------------------------------
(* Claims about the Model Selector, checked under SpecSelector *)

SelKey == <<sel.selector, sel.series, sel.period>>
FreshFit == sel.selector = "entrenar_sarima" /\ ~sel.hit

Fitted(g) == {c \in Candidates : g[c] # Fail}
\* The lowest RMSE, the earliest in iteration order among equals.
Best(g) ==
    CHOOSE c \in Fitted(g) :
        \A d \in Fitted(g) :
            \/ g[c][1] < g[d][1]
            \/ g[c][1] = g[d][1] /\ Rank(c) <= Rank(d)

OrderOf(model) == model.order \o SubSeq(model.seasonal_order, 1, 3)

\* C7 as stated: the selector returns the fitted candidate of the grid with
\* the lowest RMSE, the earliest among equals, and fails exactly when no
\* candidate fits.
C7_GridSearch ==
    FreshFit =>
        LET g == env[SelKey].grid
        IN /\ sel.ok <=> Fitted(g) # {}
           /\ sel.ok => OrderOf(sel.model) = Best(g)

\* A fit that returned (1,1,1)x(1,1,1,period) although another order of the
\* grid fits with a lower RMSE.
C7_Witness ==
    /\ FreshFit /\ sel.ok
    /\ LET g == env[SelKey].grid
       IN /\ Best(g) # <<1, 1, 1, 1, 1, 1>>
          /\ g[Best(g)][1] < g[<<1, 1, 1, 1, 1, 1>>][1]

\* C8 as stated: a fit is run at most once per (series, period) pair.
C8_FitRunOncePerPair == \A k \in DOMAIN fits : fits[k].runs <= 1

\* C8 amended: in the dashboard, an entrenar_sarima call whose pair is cached
\* returns the cached model and runs no fit; a call whose pair is not cached
\* runs one fit, and caches the model only when the fit succeeds; a model is
\* returned only for the series and period it was fitted on; so at most one
\* model is ever fitted per pair, while a failed fit is run again.  The
\* /predict selector runs a fit on every invocation.
C8_CachedPerPair ==
    [][calls' = calls + 1 =>
         LET k == <<sel'.selector, sel'.series, sel'.period>>
         IN /\ sel'.selector = "entrenar_sarima" =>
                 /\ k \in DOMAIN cache =>
                       /\ sel'.hit /\ sel'.ok /\ sel'.model = cache[k]
                       /\ fits' = fits /\ cache' = cache
                 /\ k \notin DOMAIN cache =>
                       /\ ~sel'.hit
                       /\ Runs(fits', k) = Runs(fits, k) + 1
                       /\ sel'.ok => /\ DOMAIN cache' = DOMAIN cache \cup {k}
                                     /\ cache'[k] = sel'.model
                       /\ ~sel'.ok => cache' = cache
                 /\ sel'.ok => /\ sel'.model.endog = sel'.series
                               /\ sel'.model.seasonal_order[4] = sel'.period
                 /\ \A j \in DOMAIN fits' :
                       j[1] = "entrenar_sarima" => fits'[j].models <= 1
            /\ sel'.selector = "auto_arima" =>
                 Runs(fits', k) = Runs(fits, k) + 1
    ]_vars

\* A repeated call served from the cache after the one fit of its pair, with
\* another pair fitted in between.
C8_Witness ==
    /\ sel.selector = "entrenar_sarima" /\ sel.hit /\ sel.ok
    /\ Runs(fits, SelKey) = 1
    /\ \E j \in DOMAIN cache : j # SelKey
    /\ calls = 3

====
